---- MODULE Spec2Model ----
(***************************************************************************)
(* Model of src/src/sudoku.rs: the halo2 Sudoku chip.                      *)
(*                                                                         *)
(*   configure   registers two selectors, nine advice and nine instance    *)
(*               columns, and five gates ("test gate", "range check",      *)
(*               "rows", "columns", "3x3 squares").                        *)
(*   assign      enables the selectors and fills the 9x9 region from the   *)
(*               instance columns (where solution is 0) and from the       *)
(*               solution (elsewhere).                                     *)
(*   the test    runs the mock prover on (circuit, public input), checks   *)
(*               it, changes the public input and runs it again.           *)
(*                                                                         *)
(* Field elements are modelled by the integers they are built from         *)
(* (F::from(u64)); every value the model computes is far below the Pasta   *)
(* modulus, so no reduction ever happens and a polynomial is zero in the   *)
(* field exactly when it is zero here.                                     *)
(***************************************************************************)
EXTENDS Integers, Sequences, FiniteSets, TLC

\* ---------------------------------------------------------------- sizes

\* advice: [Column<Advice>; 9], instance: [Column<Instance>; 9]; the loops 0..9
NumCols == 9

\* range_check(10, element)
RangeBound == 10

\* Expression::Constant(F::from(362880))
ProductTarget == 362880

\* Expression::Constant(F::from(45))
SumTarget == 45

\* the two constants of "test gate"
TestFirst == 5

TestSecond == 7

\* largest value a changed input cell takes (values 0..MaxVal)
MaxVal == 10

\* largest number of rows / of columns of a supplied control grid
MaxDim == 10

Idx == 0 .. (NumCols - 1)

Cells == Idx \X Idx

\* an advice cell that no assign_* call has written yet
Unassigned == -1

\* ---------------------------------------------------------------- grids
\* A grid is a Vec<Vec<F>>: a sequence of sequences, indexed from 0 in the
\* code and from 1 here.

InBounds(g, r, c) == r + 1 <= Len(g) /\ c + 1 <= Len(g[r + 1])

At(g, r, c) == g[r + 1][c + 1]

IsNineByNine(g) == Len(g) = NumCols /\ \A i \in 1 .. Len(g) : Len(g[i]) = NumCols

\* the grid whose cell (r, c) is f[<<r, c>>]
MkGrid(f) == [i \in 1 .. NumCols |-> [j \in 1 .. NumCols |-> f[<<i - 1, j - 1>>]]]

\* let public_grid = vec![...]
ExampleClues ==
    << <<0, 0, 1, 0, 0, 4, 0, 9, 0>>,
       <<4, 0, 0, 0, 0, 0, 1, 0, 7>>,
       <<0, 8, 0, 7, 0, 0, 0, 0, 4>>,
       <<9, 0, 0, 0, 1, 0, 8, 0, 0>>,
       <<0, 0, 0, 8, 0, 7, 0, 0, 0>>,
       <<0, 0, 8, 0, 6, 0, 0, 0, 1>>,
       <<8, 0, 0, 0, 0, 5, 0, 1, 0>>,
       <<6, 0, 5, 0, 0, 0, 0, 0, 9>>,
       <<0, 1, 0, 9, 0, 0, 4, 0, 0>> >>

\* let solution = vec![...]
ExampleSolution ==
    << <<5, 7, 0, 6, 2, 0, 3, 0, 8>>,
       <<0, 2, 6, 3, 8, 9, 0, 5, 0>>,
       <<3, 0, 9, 0, 5, 1, 2, 6, 0>>,
       <<0, 5, 7, 4, 0, 2, 0, 3, 6>>,
       <<1, 6, 3, 0, 9, 0, 5, 4, 2>>,
       <<2, 4, 0, 5, 0, 3, 9, 7, 0>>,
       <<0, 9, 4, 2, 7, 0, 6, 0, 3>>,
       <<0, 3, 0, 1, 4, 8, 7, 2, 0>>,
       <<7, 0, 2, 0, 3, 6, 0, 8, 5>> >>

\* The grid the table holds for (P, S): S where S is non-zero, P elsewhere.
Effective(P, S) ==
    MkGrid([rc \in Cells |-> IF At(S, rc[1], rc[2]) # 0 THEN At(S, rc[1], rc[2])
                              ELSE At(P, rc[1], rc[2])])

\* The full grid of the test: clues and solved digits together.
ExampleFull == Effective(ExampleClues, ExampleSolution)

\* -------------------------------------------------------- input families
\* Full grids the runs are started from: Sudoku grids, a Latin square that
\* is no Sudoku grid, and their images under digit maps.

\* a valid Sudoku grid built by the shifting pattern
PatternGrid == MkGrid([rc \in Cells |-> ((3 * (rc[1] % 3) + (rc[1] \div 3) + rc[2]) % 9) + 1])

\* every row and column a permutation of 1..9, the boxes not
LatinGrid == MkGrid([rc \in Cells |-> ((rc[1] + rc[2]) % 9) + 1])

\* 3 -> 4, 6 -> 9, 8 -> 4: keeps the sum and the product of 1..9
CollapseMap == [d \in 1 .. 9 |-> CASE d = 3 -> 4 [] d = 6 -> 9 [] d = 8 -> 4 [] OTHER -> d]

Relabel(g, m) == MkGrid([rc \in Cells |-> m[At(g, rc[1], rc[2])]])

SudokuGrids == {ExampleFull, PatternGrid}

FullGrids == SudokuGrids \cup {LatinGrid, Relabel(ExampleFull, CollapseMap)}

\* Clue masks: which cells are clues. The test's own, none, all.
ClueMasks ==
    { [rc \in Cells |-> At(ExampleClues, rc[1], rc[2]) # 0],
      [rc \in Cells |-> FALSE],
      [rc \in Cells |-> TRUE] }

\* u64_grid_to_fp_grid of the clues of g under mask m: 0 at every blank
PublicOf(g, m) == MkGrid([rc \in Cells |-> IF m[rc] THEN At(g, rc[1], rc[2]) ELSE 0])

\* the control grid of g under mask m: 0 at every clue
ControlOf(g, m) == MkGrid([rc \in Cells |-> IF m[rc] THEN 0 ELSE At(g, rc[1], rc[2])])

SetCell(g, r, c, v) == [g EXCEPT ![r + 1][c + 1] = v]

\* A control grid cut or padded to nr rows, its row rr to nc cells (padding
\* with 1): MyCircuit::default() is Shaped(S, 0, _, _).
Shaped(S, nr, rr, nc) ==
    [i \in 1 .. nr |->
        IF i = rr + 1
        THEN [j \in 1 .. nc |-> IF i <= NumCols /\ j <= NumCols THEN S[i][j] ELSE 1]
        ELSE [j \in 1 .. NumCols |-> IF i <= NumCols THEN S[i][j] ELSE 1]]

\* --------------------------------------------------------------- state

VARIABLES
    solution,   \* MyCircuit.solution: the control grid S
    instance,   \* the public input handed to the prover: P
    region,     \* the region "entire table": selectors, advice cells, copies
    pc,         \* where assign stands
    row,        \* the loop variables of assign
    col,
    failures,   \* what the prover's verification reported
    first,      \* the outcome of the test's first prover run
    change      \* how the input of the second run differs from the first

vars == <<solution, instance, region, pc, row, col, failures, first, change>>

\* The region as assign_region's closure finds it.
EmptyRegion ==
    [ only_first_enabled |-> {},
      always_enabled     |-> {},
      advice             |-> [i \in Idx |-> [o \in Idx |-> Unassigned]],
      writes             |-> [i \in Idx |-> [o \in Idx |-> <<>>]],
      copies             |-> {} ]

\* ------------------------------------------------------------- assign

\* self.config.only_first_enabled.enable(&mut region, 0)
EnableFirstAt(reg) ==
    [reg EXCEPT !.only_first_enabled = @ \cup {0}]

\* always_enabled enabled one row too far down
EnableAlwaysAtNext(reg, r) ==
    [reg EXCEPT !.always_enabled = @ \cup {r + 1}]

\* self.config.always_enabled.enable(&mut region, row)
EnableAlwaysAt(reg, r) ==
    [reg EXCEPT !.always_enabled = @ \cup {r}]

\* region.assign_advice_from_instance(.., instance[row], col, advice[row], col):
\* the advice cell takes the instance cell's value and is constrained equal to it
AssignAdviceFromInstance(reg, P, r, c) ==
    [reg EXCEPT !.advice[r][c] = At(P, r, c),
                !.writes[r][c] = Append(@, "public"),
                !.copies = @ \cup {<<r, c, r, c>>}]

\* region.assign_advice(.., advice[row], col, || Value::known(solution[row][col]))
AssignAdvice(reg, S, r, c) ==
    [reg EXCEPT !.advice[r][c] = At(S, r, c),
                !.writes[r][c] = Append(@, "solution")]

\* the first loop deciding by the public cell instead of the control cell
PublicCellByInstance(reg, S, P, r, c) ==
    IF At(P, r, c) = 0 THEN reg ELSE AssignAdviceFromInstance(reg, P, r, c)

\* One iteration of the first loop: skip the cell unless solution[row][col] is 0
PublicCell(reg, S, P, r, c) ==
    IF At(S, r, c) # 0 THEN reg ELSE AssignAdviceFromInstance(reg, P, r, c)

\* the second loop without its skip
SolutionCellNoSkip(reg, S, r, c) == AssignAdvice(reg, S, r, c)

\* One iteration of the second loop: skip the cell if solution[row][col] is 0
SolutionCell(reg, S, r, c) ==
    IF At(S, r, c) = 0 THEN reg ELSE AssignAdvice(reg, S, r, c)

\* A position of assign: pc, the loop variables and the region.
Start == [pc |-> "enable_first", row |-> 0, col |-> 0, region |-> EmptyRegion]

\* The loop variables after iteration (r, c) of a doubly nested 0..9 loop,
\* and where control goes when the loop is over.
Advance(st, after) ==
    IF st.col + 1 < NumCols THEN [st EXCEPT !.col = @ + 1]
    ELSE IF st.row + 1 < NumCols THEN [st EXCEPT !.row = @ + 1, !.col = 0]
    ELSE [st EXCEPT !.pc = after, !.row = 0, !.col = 0]

\* One step of assign on control grid S and public input P. Indexing
\* solution[row][col] out of bounds panics.
Step(st, S, P) ==
    CASE st.pc = "enable_first" ->
            [st EXCEPT !.region = EnableFirstAt(@), !.pc = "enable_always"]
      [] st.pc = "enable_always" ->
            [st EXCEPT !.region = EnableAlwaysAt(@, st.row),
                       !.row = IF st.row + 1 < NumCols THEN @ + 1 ELSE 0,
                       !.pc = IF st.row + 1 < NumCols THEN @ ELSE "public"]
      [] st.pc = "public" ->
            IF ~InBounds(S, st.row, st.col) THEN [st EXCEPT !.pc = "panic"]
            ELSE Advance([st EXCEPT !.region = PublicCell(@, S, P, st.row, st.col)],
                         "solution")
      [] st.pc = "solution" ->
            IF ~InBounds(S, st.row, st.col) THEN [st EXCEPT !.pc = "panic"]
            ELSE Advance([st EXCEPT !.region = SolutionCell(@, S, st.row, st.col)],
                         "ok")
      [] OTHER -> st

Running(p) == p \in {"enable_first", "enable_always", "public", "solution"}

\* The steps of a run of assign that does not panic: one enable, nine
\* enables, and the two loops over the 81 cells.
StepsOfAssign == 1 + NumCols + 2 * NumCols * NumCols

\* n steps of assign from st (a run that is over stays where it is)
RECURSIVE RunFrom(_, _, _, _)
RunFrom(st, S, P, n) ==
    IF n = 0 \/ ~Running(st.pc) THEN st
    ELSE IF n = 1 THEN Step(st, S, P)
    ELSE LET half == RunFrom(st, S, P, n \div 2)
         IN  RunFrom(half, S, P, n - (n \div 2))

\* assign from its first statement to its return (or its panic)
AssignRegion(S, P) == RunFrom(Start, S, P, StepsOfAssign)

\* ------------------------------------------------------------ configure
\* A gate is a selector and the polynomials create_gate's closure returns.
\* A polynomial is kept by its shape: the cells it queries, each an (advice
\* column, rotation) pair, and its constant.
\*   "eq"     constant - q1
\*   "range"  (1 - q1) * (2 - q1) * ... * (constant - 1 - q1)
\*   "prod"   q1 * ... * qn - constant
\*   "sum"    q1 + ... + qn - constant

Poly(kind, queries, constant) ==
    [kind |-> kind, queries |-> queries, constant |-> constant]

\* meta.create_gate("test gate", ..): advice[0] at Rotation::cur() and ::next()
TestGate ==
    [ name     |-> "test gate",
      selector |-> "only_first_enabled",
      polys    |-> << Poly("eq", << <<0, 0>> >>, TestFirst),
                      Poly("eq", << <<0, 1>> >>, TestSecond) >> ]

\* meta.create_gate("range check", ..): for i in 0..9, for j in 0..9,
\* range_check(10, advice[i] at Rotation(j))
RangeGate ==
    [ name     |-> "range check",
      selector |-> "only_first_enabled",
      polys    |-> [n \in 1 .. NumCols * NumCols |->
                      Poly("range",
                           << <<(n - 1) \div NumCols, (n - 1) % NumCols>> >>,
                           RangeBound)] ]

\* meta.create_gate("rows", ..): advice[0..9] at Rotation::cur()
RowsGate ==
    [ name     |-> "rows",
      selector |-> "always_enabled",
      polys    |-> << Poly("prod", [i \in 1 .. NumCols |-> <<i - 1, 0>>], ProductTarget),
                      Poly("sum", [i \in 1 .. NumCols |-> <<i - 1, 0>>], SumTarget) >> ]

\* "columns" with column and rotation exchanged: advice[j] at Rotation(i)
ColumnsGateTransposed ==
    [ name     |-> "columns",
      selector |-> "only_first_enabled",
      polys    |-> [n \in 1 .. 2 * NumCols |->
                      Poly(IF n % 2 = 1 THEN "prod" ELSE "sum",
                           [j \in 1 .. NumCols |-> <<j - 1, (n - 1) \div 2>>],
                           IF n % 2 = 1 THEN ProductTarget ELSE SumTarget)] ]

\* meta.create_gate("columns", ..): for i in 0..9, advice[i] at Rotation(0..9);
\* the product is pushed first, the sum second
ColumnsGate ==
    [ name     |-> "columns",
      selector |-> "only_first_enabled",
      polys    |-> [n \in 1 .. 2 * NumCols |->
                      Poly(IF n % 2 = 1 THEN "prod" ELSE "sum",
                           [j \in 1 .. NumCols |-> <<(n - 1) \div 2, j - 1>>],
                           IF n % 2 = 1 THEN ProductTarget ELSE SumTarget)] ]

\* the blocks stepping by one column instead of three: advice[i + k]
SquareQueriesOverlapping(i, j) ==
    [m \in 1 .. NumCols |-> <<i + ((m - 1) \div 3), j * 3 + ((m - 1) % 3)>>]

\* The cells block (i, j) of "3x3 squares" queries, in fold order:
\* advice[i * 3 + k] at Rotation(j * 3 + l), k outer, l inner
SquareQueries(i, j) ==
    [m \in 1 .. NumCols |-> <<i * 3 + ((m - 1) \div 3), j * 3 + ((m - 1) % 3)>>]

\* meta.create_gate("3x3 squares", ..): for i in 0..3, for j in 0..3
SquaresGate ==
    [ name     |-> "3x3 squares",
      selector |-> "only_first_enabled",
      polys    |-> [n \in 1 .. 2 * NumCols |->
                      Poly(IF n % 2 = 1 THEN "prod" ELSE "sum",
                           SquareQueries(((n - 1) \div 2) \div 3, ((n - 1) \div 2) % 3),
                           IF n % 2 = 1 THEN ProductTarget ELSE SumTarget)] ]

\* The gates in the order configure creates them.
Gates == <<TestGate, RangeGate, RowsGate, ColumnsGate, SquaresGate>>

\* ------------------------------------------------------- gate evaluation

\* The offsets at which a selector is 1.
Enabled(reg, selector) ==
    IF selector = "only_first_enabled" THEN reg.only_first_enabled
    ELSE reg.always_enabled

\* The cell a query reads when its gate is evaluated at offset off.
QueriedCell(q, off) == <<q[1], off + q[2]>>

\* The value of a cell of the table; a cell nothing was assigned to, or one
\* outside the region, reads as zero.
CellValue(reg, cell) ==
    IF cell \in Cells /\ reg.advice[cell[1]][cell[2]] # Unassigned
    THEN reg.advice[cell[1]][cell[2]]
    ELSE 0

\* (0..n).fold(Constant(1), |expr, i| expr * s[i])
RECURSIVE ProductTo(_, _)
ProductTo(s, n) == IF n = 0 THEN 1 ELSE ProductTo(s, n - 1) * s[n]

ProductOf(s) == ProductTo(s, Len(s))

\* (0..n).fold(Constant(0), |expr, i| expr + s[i])
RECURSIVE SumTo(_, _)
SumTo(s, n) == IF n = 0 THEN 0 ELSE SumTo(s, n - 1) + s[n]

SumOf(s) == SumTo(s, Len(s))

\* the fold started at 0: (0 - v) * (1 - v) * ... * (range - 1 - v)
RangeCheckFromZero(range, v) == ProductOf([k \in 1 .. range |-> (k - 1) - v])

\* (1 - v) * (2 - v) * ... * (range - 1 - v)
RangeCheck(range, v) == ProductOf([k \in 1 .. range - 1 |-> k - v])

\* The value of a polynomial at offset off, its selector not yet multiplied in.
PolyValue(reg, poly, off) ==
    LET vals == [n \in 1 .. Len(poly.queries) |->
                    CellValue(reg, QueriedCell(poly.queries[n], off))]
    IN  CASE poly.kind = "eq"    -> poly.constant - vals[1]
          [] poly.kind = "range" -> RangeCheck(poly.constant, vals[1])
          [] poly.kind = "prod"  -> ProductOf(vals) - poly.constant
          [] poly.kind = "sum"   -> SumOf(vals) - poly.constant

\* selector * polynomial: what the prover requires to be zero at every offset
ConstraintValue(reg, gate, n, off) ==
    IF off \in Enabled(reg, gate.selector) THEN PolyValue(reg, gate.polys[n], off) ELSE 0

GateSatisfied(reg, gate) ==
    \A off \in Enabled(reg, gate.selector) :
        \A n \in 1 .. Len(gate.polys) : ConstraintValue(reg, gate, n, off) = 0

\* A copy constraint holds when the advice cell equals the instance cell.
CopySatisfied(reg, P, cp) ==
    CellValue(reg, <<cp[3], cp[4]>>) = At(P, cp[1], cp[2])

\* prover.verify(): the names of the gates with a non-zero constraint, and
\* "permutation" when a copy constraint fails.
Verify(reg, P) ==
    {Gates[g].name : g \in {h \in 1 .. Len(Gates) : ~GateSatisfied(reg, Gates[h])}}
    \cup (IF \A cp \in reg.copies : CopySatisfied(reg, P, cp) THEN {} ELSE {"permutation"})

\* --------------------------------------------------- assign, step by step

NotRun == [done |-> FALSE]

NoChange == [kind |-> "none"]

Shapes == {<<nr, rr, nc>> : nr \in 0 .. MaxDim, rr \in Idx, nc \in 0 .. MaxDim}

Position == [pc |-> pc, row |-> row, col |-> col, region |-> region]

Init ==
    /\ \E g \in {ExampleFull, LatinGrid}, m \in ClueMasks, sh \in Shapes :
          /\ solution = Shaped(ControlOf(g, m), sh[1], sh[2], sh[3])
          /\ instance = PublicOf(g, m)
    /\ region = EmptyRegion
    /\ pc = "enable_first"
    /\ row = 0
    /\ col = 0
    /\ failures = {}
    /\ first = NotRun
    /\ change = NoChange

Take(st) ==
    /\ region' = st.region
    /\ pc' = st.pc
    /\ row' = st.row
    /\ col' = st.col
    /\ UNCHANGED <<solution, instance, failures, first, change>>

EnableFirst ==
    /\ pc = "enable_first"
    /\ Take(Step(Position, solution, instance))

EnableAlways ==
    /\ pc = "enable_always"
    /\ Take(Step(Position, solution, instance))

AssignPublic ==
    /\ pc = "public"
    /\ Take(Step(Position, solution, instance))

AssignSolution ==
    /\ pc = "solution"
    /\ Take(Step(Position, solution, instance))

\* prover.assert_satisfied() on the table assign returned
Check ==
    /\ pc = "ok"
    /\ failures' = Verify(region, instance)
    /\ pc' = "verified"
    /\ UNCHANGED <<solution, instance, region, row, col, first, change>>

Next == EnableFirst \/ EnableAlways \/ AssignPublic \/ AssignSolution \/ Check

Spec == Init /\ [][Next]_vars

\* ------------------------------------------- the prover runs of the test
\* MockProver::run synthesizes the circuit (assign, start to end) on the
\* public input; assert_satisfied checks the table. The test then changes
\* the input and runs the prover a second time.

InitProver ==
    /\ \E g \in FullGrids, m \in ClueMasks :
          /\ solution = ControlOf(g, m)
          /\ instance = PublicOf(g, m)
    /\ region = EmptyRegion
    /\ pc = "enable_first"
    /\ row = 0
    /\ col = 0
    /\ failures = {}
    /\ first = NotRun
    /\ change = NoChange

\* MockProver::run(k, &circuit, public_input): synthesize calls assign
Synthesize ==
    /\ pc = "enable_first"
    /\ Take(AssignRegion(solution, instance))

\* What the first run is remembered by.
Outcome ==
    [done |-> TRUE, instance |-> instance, solution |-> solution,
     region |-> region, failures |-> failures]

Restart(ch) ==
    /\ first' = Outcome
    /\ change' = ch
    /\ region' = EmptyRegion
    /\ pc' = "enable_first"
    /\ row' = 0
    /\ col' = 0
    /\ failures' = {}

\* public_input[r][c] takes another value (the test: [0][0] += Fp::one())
ChangePublicCell ==
    /\ pc = "verified"
    /\ ~first.done
    /\ \E r \in Idx, c \in Idx, v \in 0 .. MaxVal :
          /\ v # At(instance, r, c)
          /\ instance' = SetCell(instance, r, c, v)
          /\ Restart([kind |-> "public_cell", row |-> r, col |-> c])
    /\ UNCHANGED solution

\* the second run is given the clues of another puzzle
ChangePublicGrid ==
    /\ pc = "verified"
    /\ ~first.done
    /\ \E g \in FullGrids, m \in ClueMasks :
          /\ PublicOf(g, m) # instance
          /\ instance' = PublicOf(g, m)
          /\ Restart([kind |-> "public_grid"])
    /\ UNCHANGED solution

\* the second run is given a circuit whose solution[r][c] has another value
ChangeSolutionCell ==
    /\ pc = "verified"
    /\ ~first.done
    /\ \E r \in Idx, c \in Idx, v \in 0 .. MaxVal :
          /\ v # At(solution, r, c)
          /\ solution' = SetCell(solution, r, c, v)
          /\ Restart([kind |-> "solution_cell", row |-> r, col |-> c])
    /\ UNCHANGED instance

NextProver ==
    Synthesize \/ Check \/ ChangePublicCell \/ ChangePublicGrid \/ ChangeSolutionCell

SpecProver == InitProver /\ [][NextProver]_vars

\* ================================================================ claims

\* The nine cells of a Sudoku row, column and box of a grid.
RowOf(g, r) == [k \in 1 .. NumCols |-> At(g, r, k - 1)]

ColOf(g, c) == [k \in 1 .. NumCols |-> At(g, k - 1, c)]

BoxOf(g, b) ==
    [k \in 1 .. NumCols |->
        At(g, 3 * (b \div 3) + ((k - 1) \div 3), 3 * (b % 3) + ((k - 1) % 3))]

UnitsOf(g) ==
    {RowOf(g, r) : r \in Idx} \cup {ColOf(g, c) : c \in Idx} \cup {BoxOf(g, b) : b \in Idx}

Digits == 1 .. 9

InRange(u) == \A k \in 1 .. Len(u) : u[k] \in Digits

SumProductOK(u) == SumOf(u) = 45 /\ ProductOf(u) = 362880

IsPermutation(u) == {u[k] : k \in 1 .. Len(u)} = Digits

IsValidSudoku(g) == \A u \in UnitsOf(g) : IsPermutation(u)

\* P holds the clues and 0 elsewhere, S holds 0 at the clues
ConsistentPartition(P, S) ==
    \A rc \in Cells : (At(P, rc[1], rc[2]) = 0) # (At(S, rc[1], rc[2]) = 0)

\* The Sudoku grid of the current run, and of the first run.
Grid == Effective(instance, solution)

FirstGrid == Effective(first.instance, first.solution)

Written(reg) == {rc \in Cells : reg.writes[rc[1]][rc[2]] # <<>>}

\* The cells a polynomial of a gate reads when evaluated at offset off.
ReadSet(poly, off) == {QueriedCell(poly.queries[n], off) : n \in 1 .. Len(poly.queries)}

\* The queries of each gate, over all its polynomials.
QueriesOf ==
    [g \in 1 .. Len(Gates) |->
        UNION {{Gates[g].polys[n].queries[k] : k \in 1 .. Len(Gates[g].polys[n].queries)} :
                  n \in 1 .. Len(Gates[g].polys)}]

\* Every cell a gate reads at an offset its selector is enabled at lies in
\* the 9x9 region.
ActiveReadsInside(reg) ==
    \A g \in 1 .. Len(Gates) :
        \A off \in Enabled(reg, Gates[g].selector) :
            \A q \in QueriesOf[g] : QueriedCell(q, off) \in Cells

\* ---- C1
\* C1: when assign has returned on a 9x9 control grid, every table cell was
\* written exactly once: where S is 0 by the first loop, holding P's value
\* and copy-constrained to instance cell (r, c); elsewhere by the second
\* loop, holding S's value and with no copy constraint. No cell is ever
\* written twice.
C1_EveryCellAssignedOnce ==
    IsNineByNine(solution) =>
        /\ \A rc \in Cells : Len(region.writes[rc[1]][rc[2]]) <= 1
        /\ pc \in {"ok", "verified"} =>
              \A rc \in Cells :
                 LET r == rc[1]
                     c == rc[2]
                 IN  IF At(solution, r, c) = 0
                     THEN /\ region.writes[r][c] = <<"public">>
                          /\ region.advice[r][c] = At(instance, r, c)
                          /\ <<r, c, r, c>> \in region.copies
                     ELSE /\ region.writes[r][c] = <<"solution">>
                          /\ region.advice[r][c] = At(solution, r, c)
                          /\ \A cp \in region.copies : <<cp[3], cp[4]>> # rc

\* assign has returned on a 9x9 grid with both kinds of cell
C1_Witness ==
    /\ pc = "ok"
    /\ IsNineByNine(solution)
    /\ \E rc \in Cells : At(solution, rc[1], rc[2]) = 0
    /\ \E rc \in Cells : At(solution, rc[1], rc[2]) # 0
    /\ Written(region) = Cells

\* ---- C4
\* C4: with a control grid that is not 9x9, assign never returns Ok, and no
\* selector is enabled and no cell is assigned.
C4_ShapeErrorBeforeAnyEffect ==
    ~IsNineByNine(solution) =>
        /\ pc \notin {"ok", "verified"}
        /\ region.only_first_enabled = {}
        /\ region.always_enabled = {}
        /\ Written(region) = {}

\* C4, the halves apart: a grid that is not 9x9 never lets assign return Ok
C4_NeverCompletes ==
    ~IsNineByNine(solution) => pc \notin {"ok", "verified"}

\* ---- C8
\* C8: only_first_enabled is enabled at offset 0 only, always_enabled at
\* offsets 0..8 only; once assign is past its enable statements (so before any
\* cell is written) both are complete; and every cell an enabled gate reads
\* lies inside the 9x9 region.
C8_SelectorsBeforeCells ==
    /\ region.only_first_enabled \subseteq {0}
    /\ region.always_enabled \subseteq Idx
    /\ (Written(region) # {} \/ pc \notin {"enable_first", "enable_always"}) =>
          /\ region.only_first_enabled = {0}
          /\ Cardinality(region.only_first_enabled) = 1
          /\ region.always_enabled = Idx
    /\ ActiveReadsInside(region)

\* assign has returned with every cell written and all ten selectors enabled
C8_Witness ==
    /\ pc = "ok"
    /\ Written(region) = Cells
    /\ Cardinality(region.always_enabled) + Cardinality(region.only_first_enabled) = 10

\* ---- the prover runs
Verified == pc = "verified"

\* The index in "range check" of the constraint on cell (i, j), and in
\* "columns" / "3x3 squares" of the product and sum of unit i.
RangeIndex(i, j) == i * NumCols + j + 1

ProdIndex(i) == 2 * i + 1

SumIndex(i) == 2 * i + 2

\* The table holds Sudoku cell (r, c) in advice column r at offset c.
TableIsGrid ==
    \A rc \in Cells : CellValue(region, rc) = At(Grid, rc[1], rc[2])

\* ---- C2
\* C2: for a valid Sudoku grid and a consistent clue/blank partition of it,
\* every constraint of every gate is zero on the table assign fills.
C2_ValidGridsSatisfyAllGates ==
    (Verified /\ IsValidSudoku(Grid) /\ ConsistentPartition(instance, solution))
        => failures = {}

\* ---- C3
\* C3: after a run that satisfies everything, a second run with one
\* public-input cell changed and S unchanged is rejected, whichever of the
\* 81 cells was changed.
C3_PublicChangeRejected ==
    (Verified /\ first.done /\ first.failures = {} /\ change.kind = "public_cell")
        => failures # {}

\* ---- C5
\* "range check" as registered: one constraint per cell, in loop order
RangeGateShape ==
    /\ Len(RangeGate.polys) = 81
    /\ RangeGate.selector = "only_first_enabled"
    /\ \A rc \in Cells : RangeGate.polys[RangeIndex(rc[1], rc[2])].queries = <<rc>>

\* C5: "range check" has 81 constraints under only_first_enabled, one per
\* table cell (advice column i at rotation j); the constraint of a cell is
\* zero exactly when the cell's value is in 1..9, and a cell outside 1..9
\* makes the gate fail.
C5_RangeCheckExact ==
    /\ RangeGateShape
    /\ Verified =>
          \A rc \in Cells :
             LET v == At(Grid, rc[1], rc[2])
                 value == ConstraintValue(region, RangeGate, RangeIndex(rc[1], rc[2]), 0)
             IN  /\ (value = 0) <=> (v \in Digits)
                 /\ v \notin Digits => "range check" \in failures

\* a valid grid with exactly one cell changed to 10 or more: the gate fails
C5_Witness ==
    /\ Verified
    /\ first.done
    /\ IsValidSudoku(FirstGrid)
    /\ \E rc \in Cells :
          /\ At(Grid, rc[1], rc[2]) >= 10
          /\ \A other \in Cells \ {rc} :
                At(Grid, other[1], other[2]) = At(FirstGrid, other[1], other[2])
          /\ ConstraintValue(region, RangeGate, RangeIndex(rc[1], rc[2]), 0) # 0
    /\ "range check" \in failures

\* ---- C6
\* what "columns" (at offset 0) and "rows" (at offset i) read
RowColumnReadSets ==
    \A i \in Idx :
        /\ ReadSet(ColumnsGate.polys[ProdIndex(i)], 0) = {<<i, c>> : c \in Idx}
        /\ ReadSet(ColumnsGate.polys[SumIndex(i)], 0) = {<<i, c>> : c \in Idx}
        /\ ReadSet(RowsGate.polys[1], i) = {<<r, i>> : r \in Idx}
        /\ ReadSet(RowsGate.polys[2], i) = {<<r, i>> : r \in Idx}

\* C6: iteration i of "columns" reads the nine cells of Sudoku row i and
\* "rows" at offset p reads the nine cells of Sudoku column p. With every
\* cell in 1..9, a Sudoku row whose sum is not 45 or whose product is not
\* 362880 makes its "columns" constraints non-zero, a Sudoku column in that
\* state makes the "rows" constraints at its offset non-zero, for each of the
\* nine rows and nine columns.
C6_RowsAndColumnsCaught ==
    /\ RowColumnReadSets
    /\ Verified =>
          /\ TableIsGrid
          /\ region.always_enabled = Idx
          /\ (\A u \in UnitsOf(Grid) : InRange(u)) =>
                \A i \in Idx :
                   /\ ~SumProductOK(RowOf(Grid, i)) =>
                         /\ \/ ConstraintValue(region, ColumnsGate, ProdIndex(i), 0) # 0
                            \/ ConstraintValue(region, ColumnsGate, SumIndex(i), 0) # 0
                         /\ "columns" \in failures
                   /\ ~SumProductOK(ColOf(Grid, i)) =>
                         /\ \/ ConstraintValue(region, RowsGate, 1, i) # 0
                            \/ ConstraintValue(region, RowsGate, 2, i) # 0
                         /\ "rows" \in failures

\* all cells in 1..9, exactly one Sudoku row off, and "columns" fails on it
C6_Witness ==
    /\ Verified
    /\ \A u \in UnitsOf(Grid) : InRange(u)
    /\ \E i \in Idx :
          /\ ~SumProductOK(RowOf(Grid, i))
          /\ \A k \in Idx \ {i} : SumProductOK(RowOf(Grid, k))
          /\ ConstraintValue(region, ColumnsGate, SumIndex(i), 0) # 0
    /\ \E p \in Idx : ~SumProductOK(ColOf(Grid, p))
    /\ {"columns", "rows"} \subseteq failures

\* ---- C7
\* what the nine blocks of "3x3 squares" read
BoxReadSets ==
    /\ Len(SquaresGate.polys) = 18
    /\ \A b \in Idx :
          /\ ReadSet(SquaresGate.polys[ProdIndex(b)], 0)
                = {rc \in Cells : rc[1] \div 3 = b \div 3 /\ rc[2] \div 3 = b % 3}
          /\ ReadSet(SquaresGate.polys[SumIndex(b)], 0)
                = ReadSet(SquaresGate.polys[ProdIndex(b)], 0)
    /\ \A a \in Idx, b \in Idx :
          a # b => ReadSet(SquaresGate.polys[ProdIndex(a)], 0)
                      \cap ReadSet(SquaresGate.polys[ProdIndex(b)], 0) = {}
    /\ UNION {ReadSet(SquaresGate.polys[ProdIndex(b)], 0) : b \in Idx} = Cells

\* C7: the nine product/sum pairs of "3x3 squares" read nine pairwise
\* disjoint sets of cells that cover the table, each one standard Sudoku box;
\* a box whose sum is not 45 or whose product is not 362880 makes the gate
\* fail, whatever the rows and columns do.
C7_BoxesCaught ==
    /\ BoxReadSets
    /\ Verified =>
          \A b \in Idx :
             ~SumProductOK(BoxOf(Grid, b)) =>
                /\ \/ ConstraintValue(region, SquaresGate, ProdIndex(b), 0) # 0
                   \/ ConstraintValue(region, SquaresGate, SumIndex(b), 0) # 0
                /\ "3x3 squares" \in failures

\* every row and column satisfies its identity, a box does not, and of the
\* three gates only "3x3 squares" fails
C7_Witness ==
    /\ Verified
    /\ \A i \in Idx : SumProductOK(RowOf(Grid, i)) /\ SumProductOK(ColOf(Grid, i))
    /\ \E b \in Idx : ~SumProductOK(BoxOf(Grid, b))
    /\ failures \cap {"rows", "columns", "3x3 squares"} = {"3x3 squares"}

C10_SumProductImpliesPermutation ==
    Verified =>
        /\ \A u \in UnitsOf(Grid) : (InRange(u) /\ SumProductOK(u)) => IsPermutation(u)
        /\ failures \cap {"range check", "rows", "columns", "3x3 squares"} = {}
              => IsValidSudoku(Grid)

====
